---- MODULE Spec2Model ----
(***************************************************************************)
(* Shape-level model of the generators of sifigan/models/generator.py:     *)
(* HiFiGANGenerator, SiFiGANGenerator and SiFiGANDirectGenerator.          *)
(*                                                                         *)
(* A tensor is modelled by its channel count and its time length (the      *)
(* batch dimension is the same everywhere and is left out).  A layer is    *)
(* modelled by the hyperparameters its constructor call passes, and by an  *)
(* id that tells module objects apart.  Construction is one action per     *)
(* class; a forward call is a sequence of steps, one per statement of the  *)
(* forward method, each of which may raise.  The weight of a module is     *)
(* modelled by the initialization its values come from and by the state    *)
(* torch.nn.utils.weight_norm keeps on the module.  Spec is construction   *)
(* with the default use_weight_norm and the forward calls; SpecLifecycle   *)
(* adds use_weight_norm=False and the methods remove_weight_norm and       *)
(* apply_weight_norm.                                                      *)
(***************************************************************************)
EXTENDS Integers, Sequences, FiniteSets, TLC

VARIABLES cfg, net, pc, err, inp, x, c, e, embs, embs2, i, trace, out

vars == <<cfg, net, pc, err, inp, x, c, e, embs, embs2, i, trace, out>>

(***************************************************************************)
(* Bounds of the model.                                                    *)
(***************************************************************************)
MaxStages == 2
MaxScale == 3
MaxLen == 2

(***************************************************************************)
(* Python helpers.                                                         *)
(***************************************************************************)
RECURSIVE Pow2(_)
Pow2(n) == IF n = 0 THEN 1 ELSE 2 * Pow2(n - 1)

RECURSIVE Prod(_)
Prod(s) == IF Len(s) = 0 THEN 1 ELSE Head(s) * Prod(Tail(s))

\* seq[k] of Python for a 0-based or negative index k (in range)
PyIndexOK(seq, k) == (k >= 0 /\ k < Len(seq)) \/ (k < 0 /\ -k <= Len(seq))
PyIndex(seq, k) == IF k >= 0 THEN seq[k + 1] ELSE seq[Len(seq) + k + 1]

\* list(reversed(range(n))) as a sequence of 0-based indices
ReversedRange(n) == [k \in 1..n |-> n - k]

SeqsUpTo(S, n) == UNION {[1..k -> S] : k \in 0..n}

(***************************************************************************)
(* Tensors and the torch operations the generators call.                   *)
(***************************************************************************)
NoT == [ch |-> -1, len |-> -1]
T(ch, len) == [ch |-> ch, len |-> len]

\* torch.nn.Conv1d output length (dilation 1): floor((L + 2p - k) / s) + 1
Conv1dLen(L, k, s, p) == ((L + (2 * p) - k) \div s) + 1
\* a convolution raises when the padded input is shorter than the kernel
Conv1dOK(L, k, p) == L + (2 * p) >= k

\* torch.nn.ConvTranspose1d output length (dilation 1)
ConvTranspose1dLen(L, k, s, p, op) ==
    ((L - 1) * s) - (2 * p) + (k - 1) + op + 1
\* it raises unless output_padding is smaller than the stride (or dilation, 1)
ConvTranspose1dOK(s, op) == op < s \/ op < 1

\* a + b with broadcasting: sizes agree, or one of them is 1
Broadcastable(a, b) == a = b \/ a = 1 \/ b = 1
BroadcastDim(a, b) == IF a = 1 THEN b ELSE a
AddOK(a, b) == Broadcastable(a.ch, b.ch) /\ Broadcastable(a.len, b.len)
Add(a, b) == T(BroadcastDim(a.ch, b.ch), BroadcastDim(a.len, b.len))

(***************************************************************************)
(* Layers.  mods lists the members of an nn.Sequential in order.           *)
(***************************************************************************)
Layer(id, mods, in_ch, out_ch, k, s, p, op) ==
    [id |-> id, mods |-> mods, in_ch |-> in_ch, out_ch |-> out_ch,
     k |-> k, s |-> s, p |-> p, op |-> op]

IsTransposed(l) == \E n \in DOMAIN l.mods : l.mods[n] = "ConvTranspose1d"

LayerOK(l, t) ==
    /\ t.ch = l.in_ch
    /\ IF IsTransposed(l) THEN ConvTranspose1dOK(l.s, l.op)
                          ELSE Conv1dOK(t.len, l.k, l.p)

LayerOut(l, t) ==
    T(l.out_ch,
      IF IsTransposed(l) THEN ConvTranspose1dLen(t.len, l.k, l.s, l.p, l.op)
                         ELSE Conv1dLen(t.len, l.k, l.s, l.p))

UpsamplePadding_NoOddTerm(scale) == scale \div 2

\* padding of an upsampling transposed convolution
UpsamplePadding(scale) == (scale \div 2) + (scale % 2)
UpsampleOutputPadding(scale) == scale % 2

DownsamplePadding_ParitySwapped(scale, kernel) ==
    scale - (IF kernel % 2 = 1 THEN 1 ELSE 0)

\* padding of a downsampling convolution:
\* upsample_scales[i] - (upsample_kernel_sizes[i] % 2 == 0)
DownsamplePadding(scale, kernel) == scale - (IF kernel % 2 = 0 THEN 1 ELSE 0)

\* input_conv, emb: Conv1d(in, out, kernel_size, padding=(kernel_size - 1) // 2)
SameConv(id, in_ch, out_ch, kernel_size) ==
    Layer(id, <<"Conv1d">>, in_ch, out_ch, kernel_size, 1,
          (kernel_size - 1) \div 2, 0)

\* stage i (0-based) of an upsampling ladder
UpsampleLayer(id, channels, scales, kernels, k) ==
    Layer(id, <<"LeakyReLU", "ConvTranspose1d">>,
          channels \div Pow2(k), channels \div Pow2(k + 1),
          kernels[k + 1], scales[k + 1],
          UpsamplePadding(scales[k + 1]), UpsampleOutputPadding(scales[k + 1]))

\* the downsampling layer matching upsampling stage k (0-based)
DownsampleLayer(id, channels, scales, kernels, k) ==
    Layer(id, <<"Conv1d", "LeakyReLU">>,
          channels \div Pow2(k + 1), channels \div Pow2(k),
          kernels[k + 1], scales[k + 1],
          DownsamplePadding(scales[k + 1], kernels[k + 1]), 0)

TanhHead_NoTanh(id, in_ch, out_ch, kernel_size) ==
    Layer(id, <<"LeakyReLU", "Conv1d">>, in_ch, out_ch, kernel_size, 1,
          (kernel_size - 1) \div 2, 0)

\* the head that ends in Tanh
TanhHead(id, in_ch, out_ch, kernel_size) ==
    Layer(id, <<"LeakyReLU", "Conv1d", "Tanh">>, in_ch, out_ch, kernel_size, 1,
          (kernel_size - 1) \div 2, 0)

\* the head without a final nonlinearity
LinearHead(id, in_ch, out_ch, kernel_size) ==
    Layer(id, <<"LeakyReLU", "Conv1d">>, in_ch, out_ch, kernel_size, 1,
          (kernel_size - 1) \div 2, 0)

\* sifigan.layers.ResidualBlock / AdaptiveResidualBlock: keep the shape
\* stage and j are the loop indices of the constructor at the block's creation
Block(id, channels, stage, j) ==
    [id |-> id, channels |-> channels, stage |-> stage, j |-> j]
ResidualBlockOK(b, t) == t.ch = b.channels
AdaptiveResidualBlockOK(b, t, d) == t.ch = b.channels /\ d.len = t.len

Id(owner, list, idx) == [owner |-> owner, list |-> list, idx |-> idx]

(***************************************************************************)
(* Constructor arguments.                                                  *)
(***************************************************************************)
ChannelVals == {4, 6}
KernelSizeVals == {3, 4}
NumBlocksVals == {1, 2}
GinChannelsVals == {0, 256}
\* nn.Embedding(12, gin_channels)
NumEmbeddings == 12
SidVals == {-1, NumEmbeddings - 1, NumEmbeddings}
ScaleLists == SeqsUpTo(1..MaxScale, MaxStages)

\* kernel lists tried with a scale list s: the matching one (2 * scale),
\* one entry off by 1 or 2, one entry dropped, one entry added
MatchingKernels(s) == [k \in 1..Len(s) |-> 2 * s[k]]
KernelLists(s) ==
    {MatchingKernels(s)}
    \cup {[k \in 1..Len(s) |-> IF k = b THEN 2 * s[k] + dk ELSE 2 * s[k]] :
            b \in 1..Len(s), dk \in {1, 2}}
    \cup {SubSeq(MatchingKernels(s), 1, Len(s) - 1) : n \in 1..Len(s)}
    \cup {Append(MatchingKernels(s), 2)}

Flags(gen) ==
    IF gen = "HiFiGAN"
    THEN [use_sine_embs : BOOLEAN, use_qp_resblocks : BOOLEAN,
          share_upsamples : {FALSE}, share_downsamples : {FALSE},
          gin_channels : {0}, use_weight_norm : BOOLEAN]
    ELSE IF gen = "SiFiGAN"
    THEN [use_sine_embs : {TRUE}, use_qp_resblocks : {TRUE},
          share_upsamples : BOOLEAN, share_downsamples : BOOLEAN,
          gin_channels : GinChannelsVals, use_weight_norm : BOOLEAN]
    ELSE [use_sine_embs : {TRUE}, use_qp_resblocks : {TRUE},
          share_upsamples : BOOLEAN, share_downsamples : {FALSE},
          gin_channels : {0}, use_weight_norm : BOOLEAN]

Generators == {"HiFiGAN", "SiFiGAN", "SiFiGANDirect"}

Config(g, ch, ks, s, k, nb, f) ==
    [gen |-> g, in_channels |-> 2, out_channels |-> 1, channels |-> ch,
     kernel_size |-> ks, upsample_scales |-> s, upsample_kernel_sizes |-> k,
     num_blocks |-> nb, use_sine_embs |-> f.use_sine_embs,
     use_qp_resblocks |-> f.use_qp_resblocks,
     share_upsamples |-> f.share_upsamples,
     share_downsamples |-> f.share_downsamples,
     gin_channels |-> f.gin_channels,
     use_weight_norm |-> f.use_weight_norm]

(***************************************************************************)
(* Construction.  X_init_error is the exception __init__ raises ("" when   *)
(* it returns), X_init the module tree it builds.                          *)
(***************************************************************************)
NumStages(cf) == Len(cf.upsample_kernel_sizes)

\* the parallel residual blocks, appended stage by stage
ResidualBlocks(owner, cf) ==
    [n \in 1..(NumStages(cf) * cf.num_blocks) |->
        Block(Id(owner, "blocks", n - 1),
              cf.channels \div Pow2(((n - 1) \div cf.num_blocks) + 1),
              (n - 1) \div cf.num_blocks, (n - 1) % cf.num_blocks)]

\* the adaptive blocks, one per stage
AdaptiveBlocks(owner, list, cf) ==
    [k \in 1..NumStages(cf) |->
        Block(Id(owner, list, k - 1), cf.channels \div Pow2(k), k - 1, 0)]

Upsamples(owner, cf) ==
    [k \in 1..NumStages(cf) |->
        UpsampleLayer(Id(owner, "upsamples", k - 1), cf.channels,
                      cf.upsample_scales, cf.upsample_kernel_sizes, k - 1)]

Downsamples(owner, cf) ==
    [n \in 1..NumStages(cf) |->
        DownsampleLayer(Id(owner, "downsamples", n - 1), cf.channels,
                        cf.upsample_scales, cf.upsample_kernel_sizes,
                        ReversedRange(NumStages(cf))[n])]

HeadChannels_StageInput(channels, last_i) == channels \div Pow2(last_i)

\* input channels of an output head, from the index i the stage loop left:
\* channels // (2 ** (i + 1))
HeadChannels(channels, last_i) == channels \div Pow2(last_i + 1)

HiFiGANGenerator_init_error(cf) ==
    IF cf.kernel_size % 2 # 1 THEN "AssertionError"
    ELSE IF Len(cf.upsample_scales) # Len(cf.upsample_kernel_sizes)
    THEN "AssertionError"
    ELSE IF \E k \in 1..NumStages(cf) :
                cf.upsample_kernel_sizes[k] # 2 * cf.upsample_scales[k]
    THEN "AssertionError"
    ELSE IF NumStages(cf) = 0 THEN "UnboundLocalError"
    ELSE ""

HiFiGANGenerator_init(cf) ==
    LET last_i == NumStages(cf) - 1
    IN  [num_upsamples |-> NumStages(cf),
         num_blocks |-> cf.num_blocks,
         input_conv |-> SameConv(Id("self", "input_conv", 0), cf.in_channels,
                                 cf.channels, cf.kernel_size),
         upsamples |-> Upsamples("self", cf),
         use_qp_resblocks |-> cf.use_qp_resblocks,
         qp_blocks |-> IF cf.use_qp_resblocks
                       THEN AdaptiveBlocks("self", "qp_blocks", cf) ELSE <<>>,
         blocks |-> ResidualBlocks("self", cf),
         output_conv |-> TanhHead(Id("self", "output_conv", 0),
                                  HeadChannels(cf.channels, last_i),
                                  cf.out_channels, cf.kernel_size),
         use_sine_embs |-> cf.use_sine_embs,
         emb |-> IF cf.use_sine_embs
                 THEN <<SameConv(Id("self", "emb", 0), 1,
                                 cf.channels \div Pow2(NumStages(cf)),
                                 cf.kernel_size)>>
                 ELSE <<>>,
         downsamples |-> IF cf.use_sine_embs THEN Downsamples("self", cf)
                         ELSE <<>>]

CondLayer_Unprojected(cf) ==
    Layer(Id("self", "cond", 0), <<"Conv1d">>,
          cf.gin_channels, cf.gin_channels, 1, 1, 0, 0)

\* self.cond = nn.Conv1d(gin_channels, channels, 1)
CondLayer(cf) ==
    Layer(Id("self", "cond", 0), <<"Conv1d">>,
          cf.gin_channels, cf.channels, 1, 1, 0, 0)

SiFiGANGenerator_init_error_NoStageAssert(cf) ==
    IF cf.kernel_size % 2 # 1 THEN "AssertionError"
    ELSE IF Len(cf.upsample_scales) # Len(cf.upsample_kernel_sizes)
    THEN "AssertionError"
    ELSE IF NumStages(cf) = 0 THEN "UnboundLocalError"
    ELSE ""

SiFiGANGenerator_init_error(cf) ==
    IF cf.kernel_size % 2 # 1 THEN "AssertionError"
    ELSE IF Len(cf.upsample_scales) # Len(cf.upsample_kernel_sizes)
    THEN "AssertionError"
    ELSE IF \E k \in 1..NumStages(cf) :
                cf.upsample_kernel_sizes[k] # 2 * cf.upsample_scales[k]
    THEN "AssertionError"
    ELSE IF NumStages(cf) = 0 THEN "UnboundLocalError"
    ELSE ""

SiFiGANGenerator_init(cf) ==
    LET last_i == NumStages(cf) - 1
    IN  [num_upsamples |-> NumStages(cf),
         num_blocks |-> cf.num_blocks,
         share_upsamples |-> cf.share_upsamples,
         share_downsamples |-> cf.share_downsamples,
         emb_g |-> IF cf.gin_channels # 0
                   THEN <<[num_embeddings |-> NumEmbeddings,
                           embedding_dim |-> cf.gin_channels]>>
                   ELSE <<>>,
         cond |-> IF cf.gin_channels # 0
                  THEN <<CondLayer(cf)>>
                  ELSE <<>>,
         input_conv |-> SameConv(Id("self", "input_conv", 0), cf.in_channels,
                                 cf.channels, cf.kernel_size),
         sn_upsamples |-> Upsamples("sn", cf),
         fn_upsamples |-> IF ~cf.share_upsamples THEN Upsamples("fn", cf)
                          ELSE <<>>,
         sn_blocks |-> AdaptiveBlocks("sn", "blocks", cf),
         fn_blocks |-> ResidualBlocks("fn", cf),
         sn_output_conv |-> LinearHead(Id("sn", "output_conv", 0),
                                       HeadChannels(cf.channels, last_i),
                                       cf.out_channels, cf.kernel_size),
         fn_output_conv |-> TanhHead(Id("fn", "output_conv", 0),
                                     HeadChannels(cf.channels, last_i),
                                     cf.out_channels, cf.kernel_size),
         sn_emb |-> SameConv(Id("sn", "emb", 0), 1,
                             cf.channels \div Pow2(NumStages(cf)),
                             cf.kernel_size),
         sn_downsamples |-> Downsamples("sn", cf),
         fn_downsamples |-> IF ~cf.share_downsamples THEN Downsamples("fn", cf)
                            ELSE <<>>]

SiFiGANDirectGenerator_init_error(cf) ==
    IF cf.kernel_size % 2 # 1 THEN "AssertionError"
    ELSE IF Len(cf.upsample_scales) # Len(cf.upsample_kernel_sizes)
    THEN "AssertionError"
    ELSE IF \E k \in 1..NumStages(cf) :
                cf.upsample_kernel_sizes[k] # 2 * cf.upsample_scales[k]
    THEN "AssertionError"
    ELSE IF NumStages(cf) = 0 THEN "UnboundLocalError"
    ELSE ""

SiFiGANDirectGenerator_init(cf) ==
    LET last_i == NumStages(cf) - 1
    IN  [num_upsamples |-> NumStages(cf),
         num_blocks |-> cf.num_blocks,
         share_upsamples |-> cf.share_upsamples,
         input_conv |-> SameConv(Id("self", "input_conv", 0), cf.in_channels,
                                 cf.channels, cf.kernel_size),
         sn_upsamples |-> Upsamples("sn", cf),
         fn_upsamples |-> IF ~cf.share_upsamples THEN Upsamples("fn", cf)
                          ELSE <<>>,
         sn_blocks |-> AdaptiveBlocks("sn", "blocks", cf),
         fn_blocks |-> ResidualBlocks("fn", cf),
         sn_output_conv |-> LinearHead(Id("sn", "output_conv", 0),
                                       HeadChannels(cf.channels, last_i),
                                       cf.out_channels, cf.kernel_size),
         fn_output_conv |-> TanhHead(Id("fn", "output_conv", 0),
                                     HeadChannels(cf.channels, last_i),
                                     cf.out_channels, cf.kernel_size),
         sn_emb |-> SameConv(Id("sn", "emb", 0), 1,
                             cf.channels \div Pow2(NumStages(cf)),
                             cf.kernel_size),
         sn_downsamples |-> Downsamples("sn", cf)]

(***************************************************************************)
(* Weights.  A weight tensor is modelled by where its values come from:    *)
(* the layer constructor's own initialization, or normal_(0.0, 0.01); ""   *)
(* stands for an attribute the module does not have.  A module is          *)
(* modelled by whether it is an nn.Conv1d or nn.ConvTranspose1d, whether   *)
(* it carries the forward pre-hook of torch.nn.utils.weight_norm, the      *)
(* tensor its attribute weight holds, and its parameters weight_g and      *)
(* weight_v.                                                               *)
(***************************************************************************)
DefaultInit == "default"
NormalInit == "normal_(0.0, 0.01)"

NewModule(conv) ==
    [conv |-> conv, hook |-> FALSE, weight |-> DefaultInit,
     weight_g |-> "", weight_v |-> ""]

\* what the pre-hook computes: weight_g * weight_v / norm(weight_v)
compute_weight(m) == m.weight_v

\* torch.nn.utils.weight_norm(m): weight becomes weight_g and weight_v, the
\* attribute weight holds the tensor computed from them, the hook is added
weight_norm(m) ==
    [m EXCEPT !.hook = TRUE, !.weight_g = m.weight, !.weight_v = m.weight]

\* torch.nn.utils.remove_weight_norm(m): the computed tensor becomes the
\* parameter weight again; ValueError when m carries no hook
utils_remove_weight_norm_error(m) == IF m.hook THEN "" ELSE "ValueError"
utils_remove_weight_norm(m) ==
    [m EXCEPT !.hook = FALSE, !.weight = compute_weight(m),
              !.weight_g = "", !.weight_v = ""]

\* the pre-hook runs before every forward of the module it is on
forward_pre_hook(m) == IF m.hook THEN [m EXCEPT !.weight = compute_weight(m)]
                       ELSE m

\* _reset_parameters: m.weight.data.normal_(0.0, 0.01) on the convolutions
reset_parameters(params) ==
    [id \in DOMAIN params |->
        IF params[id].conv THEN [params[id] EXCEPT !.weight = NormalInit]
        ELSE params[id]]

\* _apply_weight_norm: RuntimeError from the first convolution that already
\* carries the hook (in every tree the generators build, the convolutions
\* carry the hook all or none, so nothing is changed before the error)
apply_weight_norm_error(params) ==
    IF \E id \in DOMAIN params : params[id].conv /\ params[id].hook
    THEN "RuntimeError" ELSE ""
apply_weight_norm(params) ==
    [id \in DOMAIN params |->
        IF params[id].conv THEN weight_norm(params[id]) ELSE params[id]]

Caught_Nothing(exc) == exc

\* try: ... except ValueError: return
Caught(exc) == IF exc = "ValueError" THEN "" ELSE exc

\* _remove_weight_norm over every module: the error that leaves it, if any
remove_weight_norm_error(params) ==
    IF \E id \in DOMAIN params :
            Caught(utils_remove_weight_norm_error(params[id])) # ""
    THEN "ValueError" ELSE ""
remove_weight_norm(params) ==
    [id \in DOMAIN params |->
        IF utils_remove_weight_norm_error(params[id]) = ""
        THEN utils_remove_weight_norm(params[id]) ELSE params[id]]

LayerIds(list) == {list[k].id : k \in DOMAIN list}

\* the modules self.apply visits that are convolutions (a residual block
\* stands for the convolutions inside it)
ConvIds(gen, n) ==
    IF gen = "HiFiGAN"
    THEN {n.input_conv.id, n.output_conv.id}
         \cup LayerIds(n.upsamples) \cup LayerIds(n.qp_blocks)
         \cup LayerIds(n.blocks) \cup LayerIds(n.emb)
         \cup LayerIds(n.downsamples)
    ELSE {n.input_conv.id, n.sn_output_conv.id, n.fn_output_conv.id,
          n.sn_emb.id}
         \cup LayerIds(n.sn_upsamples) \cup LayerIds(n.fn_upsamples)
         \cup LayerIds(n.sn_blocks) \cup LayerIds(n.fn_blocks)
         \cup LayerIds(n.sn_downsamples)
         \cup (IF gen = "SiFiGAN"
               THEN LayerIds(n.fn_downsamples) \cup LayerIds(n.cond)
               ELSE {})

\* the modules that are not: the generator itself and the embedding table
OtherIds(gen, n) ==
    {Id("self", "", 0)}
    \cup (IF gen = "SiFiGAN" /\ Len(n.emb_g) > 0
          THEN {Id("self", "emb_g", 0)} ELSE {})

Modules(gen, n) ==
    [id \in ConvIds(gen, n) \cup OtherIds(gen, n) |->
        NewModule(id \in ConvIds(gen, n))]

\* if use_weight_norm: self.apply_weight_norm()
\* self.reset_parameters()
InitialParams(cf, n) ==
    reset_parameters(IF cf.use_weight_norm
                     THEN apply_weight_norm(Modules(cf.gen, n))
                     ELSE Modules(cf.gen, n))

\* the module tree together with the state of its modules' weights
WithParams(n, params) ==
    [f \in DOMAIN n \cup {"params"} |->
        IF f = "params" THEN params ELSE n[f]]

\* the pre-hooks of the modules the steps tr applied
ForwardPreHooks(n, tr) ==
    LET applied == {tr[k].mod : k \in DOMAIN tr}
    IN  [n EXCEPT !.params =
            [id \in DOMAIN @ |->
                IF id \in applied THEN forward_pre_hook(@[id]) ELSE @[id]]]

(***************************************************************************)
(* Forward-call arguments.                                                 *)
(***************************************************************************)
ScaleProduct(cf) == Prod(cf.upsample_scales)

\* time length of the ladder after stage k (0-based) for an input of length L
StageLen(cf, L, k) == L * Prod(SubSeq(cf.upsample_scales, 1, k + 1))

\* conditioning lengths: the shortest and the longest
CLens == {1, MaxLen}

\* excitation lengths: the matching one, its neighbours, and 1
XLens(cf, L) ==
    {n \in {1, L * ScaleProduct(cf) - 1, L * ScaleProduct(cf),
            L * ScaleProduct(cf) + 1} : n >= 1}

\* dilation-factor lists: the matching one, one tensor too long by a sample,
\* one tensor missing, one tensor too many
MatchingD(cf, L) == [k \in 1..NumStages(cf) |-> T(1, StageLen(cf, L, k - 1))]
DLists(cf, L) ==
    {MatchingD(cf, L)}
    \cup {[MatchingD(cf, L) EXCEPT ![b] = T(1, @.len + 1)] :
            b \in 1..NumStages(cf)}
    \cup {SubSeq(MatchingD(cf, L), 1, NumStages(cf) - 1)}
    \cup {Append(MatchingD(cf, L), T(1, L * ScaleProduct(cf)))}

NoId == Id("", "", -1)
NoInp == [x |-> NoT, c |-> NoT, d |-> <<>>, sid |-> -1]

\* one entry of the record of a forward call: the operation, the module
\* applied, the stage, the operands, the result (NoT when it raised) and an
\* integer detail (the list index read, or the divisor of the mean)
Step(op, mod, stage, in, arg, res, k) ==
    [op |-> op, mod |-> mod, stage |-> stage, in |-> in, arg |-> arg,
     res |-> res, k |-> k]

Raise(exc) == pc' = "raised" /\ err' = exc

\* flat index of block j of stage i: blocks[i * num_blocks + j]
BlockIndex(stage, num_blocks, j) == stage * num_blocks + j

\* cs = 0.0; for j in range(num_blocks): cs += blocks[...](c) -- the steps
GroupSteps(blocks, stage, num_blocks, t) ==
    [n \in 1..num_blocks |->
        Step("block", PyIndex(blocks, BlockIndex(stage, num_blocks, n - 1)).id,
             stage, t, NoT, t, BlockIndex(stage, num_blocks, n - 1))]

GroupOK(blocks, stage, num_blocks, t) ==
    \A j \in 0..(num_blocks - 1) :
        /\ PyIndexOK(blocks, BlockIndex(stage, num_blocks, j))
        /\ ResidualBlockOK(PyIndex(blocks, BlockIndex(stage, num_blocks, j)), t)

MeanDivisor_Hardcoded(num_blocks) == 3

\* c = cs / num_blocks
MeanDivisor(num_blocks) == num_blocks

(***************************************************************************)
(* The state machine.                                                      *)
(***************************************************************************)
\* a generator about to be constructed with use_weight_norm in wn, channels
\* in chs and a number of residual blocks per stage in nbs
InitWith(wn, chs, nbs) ==
    /\ \E g \in Generators, s \in ScaleLists, ch \in chs,
          ks \in KernelSizeVals, nb \in nbs :
        \E k \in KernelLists(s), f \in Flags(g) :
            /\ f.use_weight_norm \in wn
            /\ cfg = Config(g, ch, ks, s, k, nb, f)
    /\ net = <<>>
    /\ pc = "new"
    /\ err = ""
    /\ inp = NoInp
    /\ x = NoT
    /\ c = NoT
    /\ e = NoT
    /\ embs = <<>>
    /\ embs2 = <<>>
    /\ i = 0
    /\ trace = <<>>
    /\ out = <<>>

\* use_weight_norm has its default value, True
Init == InitWith({TRUE}, ChannelVals, NumBlocksVals)

Construct(gen, init_error, init) ==
    /\ pc = "new"
    /\ cfg.gen = gen
    /\ IF init_error = ""
       THEN /\ net' = WithParams(init, InitialParams(cfg, init))
            /\ pc' = "ready"
            /\ err' = err
       ELSE /\ net' = net
            /\ pc' = "init_error"
            /\ err' = init_error
    /\ UNCHANGED <<cfg, inp, x, c, e, embs, embs2, i, trace, out>>

HiFiGAN_Construct ==
    Construct("HiFiGAN", HiFiGANGenerator_init_error(cfg),
              HiFiGANGenerator_init(cfg))

CascadeSteps_EveryLayer(n) == n.num_upsamples

\* the number of downsampling layers a cascade applies:
\* for i in range(self.num_upsamples - 1)
CascadeSteps(n) == n.num_upsamples - 1

(***************************************************************************)
(* HiFiGANGenerator.forward                                                *)
(***************************************************************************)
\* forward(x, c, d): c = self.input_conv(c)
HiFiGAN_forward ==
    /\ pc = "ready"
    /\ cfg.gen = "HiFiGAN"
    /\ \E L \in CLens : \E xl \in XLens(cfg, L) : \E d \in DLists(cfg, L) :
        LET cin == T(cfg.in_channels, L)
            ok == LayerOK(net.input_conv, cin)
            res == IF ok THEN LayerOut(net.input_conv, cin) ELSE NoT
        IN  /\ inp' = [x |-> T(1, xl), c |-> cin, d |-> d, sid |-> -1]
            /\ x' = T(1, xl)
            /\ c' = res
            /\ trace' = <<Step("input_conv", net.input_conv.id, -1, cin, NoT,
                               res, 0)>>
            /\ IF ok
               THEN /\ pc' = IF net.use_sine_embs THEN "H_emb" ELSE "H_upsample"
                    /\ err' = err
               ELSE Raise("RuntimeError")
    /\ i' = 0
    /\ net' = ForwardPreHooks(net, trace')
    /\ UNCHANGED <<cfg, e, embs, embs2, out>>

\* x = self.emb(x); embs = [x]
HiFiGAN_emb ==
    /\ pc = "H_emb"
    /\ LET l == net.emb[1]
           ok == LayerOK(l, x)
           res == IF ok THEN LayerOut(l, x) ELSE NoT
       IN  /\ x' = res
           /\ embs' = <<res>>
           /\ trace' = Append(trace, Step("emb", l.id, -1, x, NoT, res, 0))
           /\ IF ok
              THEN /\ pc' = IF 0 < CascadeSteps(net) THEN "H_downsample"
                            ELSE "H_upsample"
                   /\ err' = err
              ELSE Raise("RuntimeError")
    /\ i' = 0
    /\ net' = ForwardPreHooks(net, trace')
    /\ UNCHANGED <<cfg, inp, c, e, embs2, out>>

\* for i in range(self.num_upsamples - 1):
\*     x = self.downsamples[i](x); embs += [x]
HiFiGAN_downsample ==
    /\ pc = "H_downsample"
    /\ LET l == PyIndex(net.downsamples, i)
           ok == LayerOK(l, x)
           res == IF ok THEN LayerOut(l, x) ELSE NoT
       IN  /\ x' = res
           /\ trace' = Append(trace, Step("downsample", l.id, -1, x, NoT, res, i))
           /\ IF ok
              THEN /\ embs' = Append(embs, res)
                   /\ pc' = IF i + 1 < CascadeSteps(net) THEN "H_downsample"
                            ELSE "H_upsample"
                   /\ i' = IF i + 1 < CascadeSteps(net) THEN i + 1 ELSE 0
                   /\ err' = err
              ELSE /\ embs' = embs
                   /\ i' = i
                   /\ Raise("RuntimeError")
    /\ net' = ForwardPreHooks(net, trace')
    /\ UNCHANGED <<cfg, inp, c, e, embs2, out>>

AfterUpsample_QpFirst(n) ==
    IF n.use_qp_resblocks THEN "H_qp"
    ELSE IF n.use_sine_embs THEN "H_add"
    ELSE "H_blocks"

\* the statement of the stage body that follows c = self.upsamples[i](c)
AfterUpsample(n) ==
    IF n.use_sine_embs THEN "H_add"
    ELSE IF n.use_qp_resblocks THEN "H_qp"
    ELSE "H_blocks"

\* for i in range(self.num_upsamples): c = self.upsamples[i](c)
HiFiGAN_upsample ==
    /\ pc = "H_upsample"
    /\ LET l == PyIndex(net.upsamples, i)
           ok == LayerOK(l, c)
           res == IF ok THEN LayerOut(l, c) ELSE NoT
       IN  /\ c' = res
           /\ trace' = Append(trace, Step("upsample", l.id, i, c, NoT, res, i))
           /\ IF ok
              THEN /\ pc' = AfterUpsample(net)
                   /\ err' = err
              ELSE Raise("RuntimeError")
    /\ net' = ForwardPreHooks(net, trace')
    /\ UNCHANGED <<cfg, inp, x, e, embs, embs2, i, out>>

\* if self.use_sine_embs: c = c + embs[-i - 1]
HiFiGAN_add ==
    /\ pc = "H_add"
    /\ LET hit == PyIndexOK(embs, -i - 1)
           emb == IF hit THEN PyIndex(embs, -i - 1) ELSE NoT
           ok == hit /\ AddOK(c, emb)
           res == IF ok THEN Add(c, emb) ELSE NoT
       IN  /\ c' = res
           /\ trace' = Append(trace, Step("add", NoId, i, c, emb, res,
                                          Len(embs) - i - 1))
           /\ IF ok
              THEN /\ pc' = IF net.use_qp_resblocks THEN "H_qp" ELSE "H_blocks"
                   /\ err' = err
              ELSE Raise(IF hit THEN "RuntimeError" ELSE "IndexError")
    /\ net' = ForwardPreHooks(net, trace')
    /\ UNCHANGED <<cfg, inp, x, e, embs, embs2, i, out>>

\* if self.use_qp_resblocks: c = self.qp_blocks[i](c, d[i])
HiFiGAN_qp ==
    /\ pc = "H_qp"
    /\ LET b == PyIndex(net.qp_blocks, i)
           hit == PyIndexOK(inp.d, i)
           di == IF hit THEN PyIndex(inp.d, i) ELSE NoT
           ok == hit /\ AdaptiveResidualBlockOK(b, c, di)
           res == IF ok THEN c ELSE NoT
       IN  /\ c' = res
           /\ trace' = Append(trace, Step("qp_block", b.id, i, c, di, res, i))
           /\ IF ok
              THEN /\ pc' = "H_blocks"
                   /\ err' = err
              ELSE Raise(IF hit THEN "RuntimeError" ELSE "IndexError")
    /\ net' = ForwardPreHooks(net, trace')
    /\ UNCHANGED <<cfg, inp, x, e, embs, embs2, i, out>>

\* cs = 0.0; for j ...: cs += self.blocks[i * self.num_blocks + j](c)
\* c = cs / self.num_blocks
HiFiGAN_blocks ==
    /\ pc = "H_blocks"
    /\ LET ok == GroupOK(net.blocks, i, net.num_blocks, c)
       IN  IF ok
           THEN /\ trace' = trace \o GroupSteps(net.blocks, i, net.num_blocks, c)
                            \o <<Step("mean", NoId, i, c, NoT, c,
                                      MeanDivisor(net.num_blocks))>>
                /\ c' = c
                /\ i' = i + 1
                /\ pc' = IF i + 1 < net.num_upsamples THEN "H_upsample"
                         ELSE "H_output_conv"
                /\ err' = err
           ELSE /\ trace' = trace
                /\ c' = NoT
                /\ i' = i
                /\ Raise("RuntimeError")
    /\ net' = ForwardPreHooks(net, trace')
    /\ UNCHANGED <<cfg, inp, x, e, embs, embs2, out>>

\* c = self.output_conv(c); return (c,)
HiFiGAN_output_conv ==
    /\ pc = "H_output_conv"
    /\ LET l == net.output_conv
           ok == LayerOK(l, c)
           res == IF ok THEN LayerOut(l, c) ELSE NoT
       IN  /\ c' = res
           /\ trace' = Append(trace, Step("output_conv", l.id, -1, c, NoT, res, 0))
           /\ IF ok
              THEN /\ out' = <<[t |-> res, head |-> l.mods]>>
                   /\ pc' = "returned"
                   /\ err' = err
              ELSE /\ out' = out
                   /\ Raise("RuntimeError")
    /\ net' = ForwardPreHooks(net, trace')
    /\ UNCHANGED <<cfg, inp, x, e, embs, embs2, i>>


(***************************************************************************)
(* The statement  t = upsamples[i](t) + embs[k]  of the dual generators:   *)
(* the upsampling layer is applied, then the list is indexed, then the two *)
(* are added.                                                              *)
(***************************************************************************)
UpsampleAdd(l, t, list, k, stage) ==
    LET ok1 == LayerOK(l, t)
        up == IF ok1 THEN LayerOut(l, t) ELSE NoT
        hit == PyIndexOK(list, k)
        emb == IF hit THEN PyIndex(list, k) ELSE NoT
        ok2 == ok1 /\ hit /\ AddOK(up, emb)
        res == IF ok2 THEN Add(up, emb) ELSE NoT
    IN  [ok |-> ok2,
         exc |-> IF ok1 /\ ~hit THEN "IndexError" ELSE "RuntimeError",
         res |-> res,
         steps |-> IF ok1
                   THEN <<Step("upsample", l.id, stage, t, NoT, up, stage),
                          Step("add", NoId, stage, up, emb, res,
                               IF k >= 0 THEN k ELSE Len(list) + k)>>
                   ELSE <<Step("upsample", l.id, stage, t, NoT, up, stage)>>]

FilterUpsample_AlwaysSource(n, k) == PyIndex(n.sn_upsamples, k)

\* the upsampling layer the filter network applies at stage k:
\* self.sn["upsamples"][k] if self.share_upsamples else self.fn["upsamples"][k]
FilterUpsample(n, k) ==
    IF n.share_upsamples THEN PyIndex(n.sn_upsamples, k)
    ELSE PyIndex(n.fn_upsamples, k)

FilterDownsample_AlwaysSource(n, k) == PyIndex(n.sn_downsamples, k)

\* the downsampling layer the filter cascade applies at step k:
\* self.sn["downsamples"][k] if self.share_downsamples
\* else self.fn["downsamples"][k]
FilterDownsample(n, k) ==
    IF n.share_downsamples THEN PyIndex(n.sn_downsamples, k)
    ELSE PyIndex(n.fn_downsamples, k)

SiFiGAN_Construct ==
    Construct("SiFiGAN", SiFiGANGenerator_init_error(cfg),
              SiFiGANGenerator_init(cfg))

SiFiGANDirect_Construct ==
    Construct("SiFiGANDirect", SiFiGANDirectGenerator_init_error(cfg),
              SiFiGANDirectGenerator_init(cfg))

EmbeddingIndexOK_Inclusive(table, sid) ==
    sid >= 0 /\ sid <= table.num_embeddings

\* self.emb_g(sid): nn.Embedding raises IndexError for an index outside
\* 0 .. num_embeddings - 1
EmbeddingIndexOK(table, sid) == sid >= 0 /\ sid < table.num_embeddings

(***************************************************************************)
(* SiFiGANGenerator.forward                                                *)
(***************************************************************************)
\* sid_ = self.emb_g(sid).unsqueeze(-1); sid_ = self.cond(sid_)
\* c = self.input_conv(c) + sid_; e = c
SiFiGAN_forward ==
    /\ pc = "ready"
    /\ cfg.gen = "SiFiGAN"
    /\ \E L \in CLens : \E xl \in XLens(cfg, L) : \E d \in DLists(cfg, L) :
       \E sid \in SidVals :
        LET cin == T(cfg.in_channels, L)
            has == Len(net.emb_g) > 0
            inrange == has /\ EmbeddingIndexOK(net.emb_g[1], sid)
            looked == IF inrange THEN T(net.emb_g[1].embedding_dim, 1) ELSE NoT
            ok1 == inrange /\ LayerOK(net.cond[1], looked)
            sid_ == IF ok1 THEN LayerOut(net.cond[1], looked) ELSE NoT
            ok2 == ok1 /\ LayerOK(net.input_conv, cin)
            conv == IF ok2 THEN LayerOut(net.input_conv, cin) ELSE NoT
            ok == ok2 /\ AddOK(conv, sid_)
            res == IF ok THEN Add(conv, sid_) ELSE NoT
        IN  /\ inp' = [x |-> T(1, xl), c |-> cin, d |-> d, sid |-> sid]
            /\ x' = T(1, xl)
            /\ c' = res
            /\ e' = res
            /\ trace' =
                 (IF inrange
                  THEN <<Step("emb_g", Id("self", "emb_g", 0), -1, NoT, NoT,
                              looked, sid)>>
                  ELSE <<>>)
                 \o (IF ok1
                     THEN <<Step("cond", net.cond[1].id, -1, looked, NoT,
                                 sid_, 0)>>
                     ELSE <<>>)
                 \o (IF ok2
                     THEN <<Step("input_conv", net.input_conv.id, -1, cin, NoT,
                                 conv, 0),
                            Step("add_sid", NoId, -1, conv, sid_, res, 0)>>
                     ELSE <<>>)
            /\ IF ok
               THEN /\ pc' = "S_emb"
                    /\ err' = err
               ELSE Raise(IF ~has THEN "AttributeError"
                          ELSE IF ~inrange THEN "IndexError"
                          ELSE "RuntimeError")
    /\ i' = 0
    /\ net' = ForwardPreHooks(net, trace')
    /\ UNCHANGED <<cfg, embs, embs2, out>>

\* x = self.sn["emb"](x); embs = [x]
SiFiGAN_emb ==
    /\ pc = "S_emb"
    /\ LET l == net.sn_emb
           ok == LayerOK(l, x)
           res == IF ok THEN LayerOut(l, x) ELSE NoT
       IN  /\ x' = res
           /\ embs' = <<res>>
           /\ trace' = Append(trace, Step("emb", l.id, -1, x, NoT, res, 0))
           /\ IF ok
              THEN /\ pc' = IF 0 < CascadeSteps(net) THEN "S_downsample"
                            ELSE "S_source"
                   /\ err' = err
              ELSE Raise("RuntimeError")
    /\ i' = 0
    /\ net' = ForwardPreHooks(net, trace')
    /\ UNCHANGED <<cfg, inp, c, e, embs2, out>>

\* for i in range(self.num_upsamples - 1):
\*     x = self.sn["downsamples"][i](x); embs += [x]
SiFiGAN_downsample ==
    /\ pc = "S_downsample"
    /\ LET l == PyIndex(net.sn_downsamples, i)
           ok == LayerOK(l, x)
           res == IF ok THEN LayerOut(l, x) ELSE NoT
       IN  /\ x' = res
           /\ trace' = Append(trace, Step("downsample", l.id, -1, x, NoT, res, i))
           /\ IF ok
              THEN /\ embs' = Append(embs, res)
                   /\ pc' = IF i + 1 < CascadeSteps(net) THEN "S_downsample"
                            ELSE "S_source"
                   /\ i' = IF i + 1 < CascadeSteps(net) THEN i + 1 ELSE 0
                   /\ err' = err
              ELSE /\ embs' = embs
                   /\ i' = i
                   /\ Raise("RuntimeError")
    /\ net' = ForwardPreHooks(net, trace')
    /\ UNCHANGED <<cfg, inp, c, e, embs2, out>>

\* for i in range(self.num_upsamples):
\*     e = self.sn["upsamples"][i](e) + embs[-i - 1]
SiFiGAN_source ==
    /\ pc = "S_source"
    /\ LET r == UpsampleAdd(PyIndex(net.sn_upsamples, i), e, embs, -i - 1, i)
       IN  /\ e' = r.res
           /\ trace' = trace \o r.steps
           /\ IF r.ok
              THEN /\ pc' = "S_source_block"
                   /\ err' = err
              ELSE Raise(r.exc)
    /\ net' = ForwardPreHooks(net, trace')
    /\ UNCHANGED <<cfg, inp, x, c, embs, embs2, i, out>>

\*     e = self.sn["blocks"][i](e, d[i])
SiFiGAN_source_block ==
    /\ pc = "S_source_block"
    /\ LET b == PyIndex(net.sn_blocks, i)
           hit == PyIndexOK(inp.d, i)
           di == IF hit THEN PyIndex(inp.d, i) ELSE NoT
           ok == hit /\ AdaptiveResidualBlockOK(b, e, di)
           res == IF ok THEN e ELSE NoT
       IN  /\ e' = res
           /\ trace' = Append(trace, Step("qp_block", b.id, i, e, di, res, i))
           /\ IF ok
              THEN /\ pc' = IF i + 1 < net.num_upsamples THEN "S_source"
                            ELSE "S_source_out"
                   /\ i' = IF i + 1 < net.num_upsamples THEN i + 1 ELSE 0
                   /\ err' = err
              ELSE /\ i' = i
                   /\ Raise(IF hit THEN "RuntimeError" ELSE "IndexError")
    /\ net' = ForwardPreHooks(net, trace')
    /\ UNCHANGED <<cfg, inp, x, c, embs, embs2, out>>

\* e_ = self.sn["output_conv"](e); embs = [e]
SiFiGAN_source_out ==
    /\ pc = "S_source_out"
    /\ LET l == net.sn_output_conv
           ok == LayerOK(l, e)
           res == IF ok THEN LayerOut(l, e) ELSE NoT
       IN  /\ trace' = Append(trace, Step("output_conv", l.id, -1, e, NoT, res, 0))
           /\ IF ok
              THEN /\ out' = <<[t |-> res, head |-> l.mods]>>
                   /\ embs' = <<e>>
                   /\ pc' = IF 0 < CascadeSteps(net)
                            THEN "S_filter_downsample" ELSE "S_filter"
                   /\ err' = err
              ELSE /\ out' = out
                   /\ embs' = embs
                   /\ Raise("RuntimeError")
    /\ i' = 0
    /\ net' = ForwardPreHooks(net, trace')
    /\ UNCHANGED <<cfg, inp, x, c, e, embs2>>

\* for i in range(self.num_upsamples - 1):
\*     if self.share_downsamples: e = self.sn["downsamples"][i](e)
\*     else: e = self.fn["downsamples"][i](e)
\*     embs += [e]
SiFiGAN_filter_downsample ==
    /\ pc = "S_filter_downsample"
    /\ LET l == FilterDownsample(net, i)
           ok == LayerOK(l, e)
           res == IF ok THEN LayerOut(l, e) ELSE NoT
       IN  /\ e' = res
           /\ trace' = Append(trace, Step("filter_downsample", l.id, -1, e, NoT,
                                          res, i))
           /\ IF ok
              THEN /\ embs' = Append(embs, res)
                   /\ pc' = IF i + 1 < CascadeSteps(net)
                            THEN "S_filter_downsample" ELSE "S_filter"
                   /\ i' = IF i + 1 < CascadeSteps(net) THEN i + 1 ELSE 0
                   /\ err' = err
              ELSE /\ embs' = embs
                   /\ i' = i
                   /\ Raise("RuntimeError")
    /\ net' = ForwardPreHooks(net, trace')
    /\ UNCHANGED <<cfg, inp, x, c, embs2, out>>

\* for i in range(self.num_upsamples):
\*     if self.share_upsamples: c = self.sn["upsamples"][i](c) + embs[-i - 1]
\*     else: c = self.fn["upsamples"][i](c) + embs[-i - 1]
SiFiGAN_filter ==
    /\ pc = "S_filter"
    /\ LET l == FilterUpsample(net, i)
           r == UpsampleAdd(l, c, embs, -i - 1, i)
       IN  /\ c' = r.res
           /\ trace' = trace \o [n \in DOMAIN r.steps |->
                                   [r.steps[n] EXCEPT !.op = "filter_" \o @]]
           /\ IF r.ok
              THEN /\ pc' = "S_filter_blocks"
                   /\ err' = err
              ELSE Raise(r.exc)
    /\ net' = ForwardPreHooks(net, trace')
    /\ UNCHANGED <<cfg, inp, x, e, embs, embs2, i, out>>

\*     cs = 0.0; for j ...: cs += self.fn["blocks"][i * num_blocks + j](c)
\*     c = cs / num_blocks
SiFiGAN_filter_blocks ==
    /\ pc = "S_filter_blocks"
    /\ LET ok == GroupOK(net.fn_blocks, i, net.num_blocks, c)
       IN  IF ok
           THEN /\ trace' = trace \o GroupSteps(net.fn_blocks, i, net.num_blocks, c)
                            \o <<Step("mean", NoId, i, c, NoT, c,
                                      MeanDivisor(net.num_blocks))>>
                /\ c' = c
                /\ i' = i + 1
                /\ pc' = IF i + 1 < net.num_upsamples THEN "S_filter"
                         ELSE "S_filter_out"
                /\ err' = err
           ELSE /\ trace' = trace
                /\ c' = NoT
                /\ i' = i
                /\ Raise("RuntimeError")
    /\ net' = ForwardPreHooks(net, trace')
    /\ UNCHANGED <<cfg, inp, x, e, embs, embs2, out>>

\* c = self.fn["output_conv"](c); return c, e_
SiFiGAN_filter_out ==
    /\ pc = "S_filter_out"
    /\ LET l == net.fn_output_conv
           ok == LayerOK(l, c)
           res == IF ok THEN LayerOut(l, c) ELSE NoT
       IN  /\ c' = res
           /\ trace' = Append(trace, Step("filter_output_conv", l.id, -1, c, NoT,
                                          res, 0))
           /\ IF ok
              THEN /\ out' = <<[t |-> res, head |-> l.mods]>> \o out
                   /\ pc' = "returned"
                   /\ err' = err
              ELSE /\ out' = out
                   /\ Raise("RuntimeError")
    /\ net' = ForwardPreHooks(net, trace')
    /\ UNCHANGED <<cfg, inp, x, e, embs, embs2, i>>

(***************************************************************************)
(* SiFiGANDirectGenerator.forward                                          *)
(***************************************************************************)
\* forward(x, c, d): c = self.input_conv(c); e = c
SiFiGANDirect_forward ==
    /\ pc = "ready"
    /\ cfg.gen = "SiFiGANDirect"
    /\ \E L \in CLens : \E xl \in XLens(cfg, L) : \E d \in DLists(cfg, L) :
        LET cin == T(cfg.in_channels, L)
            ok == LayerOK(net.input_conv, cin)
            res == IF ok THEN LayerOut(net.input_conv, cin) ELSE NoT
        IN  /\ inp' = [x |-> T(1, xl), c |-> cin, d |-> d, sid |-> -1]
            /\ x' = T(1, xl)
            /\ c' = res
            /\ e' = res
            /\ trace' = <<Step("input_conv", net.input_conv.id, -1, cin, NoT,
                               res, 0)>>
            /\ IF ok
               THEN /\ pc' = "D_emb"
                    /\ err' = err
               ELSE Raise("RuntimeError")
    /\ i' = 0
    /\ net' = ForwardPreHooks(net, trace')
    /\ UNCHANGED <<cfg, embs, embs2, out>>

\* x = self.sn["emb"](x); embs = [x]
SiFiGANDirect_emb ==
    /\ pc = "D_emb"
    /\ LET l == net.sn_emb
           ok == LayerOK(l, x)
           res == IF ok THEN LayerOut(l, x) ELSE NoT
       IN  /\ x' = res
           /\ embs' = <<res>>
           /\ trace' = Append(trace, Step("emb", l.id, -1, x, NoT, res, 0))
           /\ IF ok
              THEN /\ pc' = IF 0 < CascadeSteps(net) THEN "D_downsample"
                            ELSE "D_source"
                   /\ err' = err
              ELSE Raise("RuntimeError")
    /\ i' = 0
    /\ embs2' = <<>>
    /\ net' = ForwardPreHooks(net, trace')
    /\ UNCHANGED <<cfg, inp, c, e, out>>

\* for i in range(self.num_upsamples - 1):
\*     x = self.sn["downsamples"][i](x); embs += [x]
\* embs2 = []
SiFiGANDirect_downsample ==
    /\ pc = "D_downsample"
    /\ LET l == PyIndex(net.sn_downsamples, i)
           ok == LayerOK(l, x)
           res == IF ok THEN LayerOut(l, x) ELSE NoT
       IN  /\ x' = res
           /\ trace' = Append(trace, Step("downsample", l.id, -1, x, NoT, res, i))
           /\ IF ok
              THEN /\ embs' = Append(embs, res)
                   /\ pc' = IF i + 1 < CascadeSteps(net) THEN "D_downsample"
                            ELSE "D_source"
                   /\ i' = IF i + 1 < CascadeSteps(net) THEN i + 1 ELSE 0
                   /\ err' = err
              ELSE /\ embs' = embs
                   /\ i' = i
                   /\ Raise("RuntimeError")
    /\ net' = ForwardPreHooks(net, trace')
    /\ UNCHANGED <<cfg, inp, c, e, embs2, out>>

\* for i in range(self.num_upsamples):
\*     e = self.sn["upsamples"][i](e) + embs[-i - 1]
SiFiGANDirect_source ==
    /\ pc = "D_source"
    /\ LET r == UpsampleAdd(PyIndex(net.sn_upsamples, i), e, embs, -i - 1, i)
       IN  /\ e' = r.res
           /\ trace' = trace \o r.steps
           /\ IF r.ok
              THEN /\ pc' = "D_source_block"
                   /\ err' = err
              ELSE Raise(r.exc)
    /\ net' = ForwardPreHooks(net, trace')
    /\ UNCHANGED <<cfg, inp, x, c, embs, embs2, i, out>>

\*     e = self.sn["blocks"][i](e, d[i]); embs2 += [e]
SiFiGANDirect_source_block ==
    /\ pc = "D_source_block"
    /\ LET b == PyIndex(net.sn_blocks, i)
           hit == PyIndexOK(inp.d, i)
           di == IF hit THEN PyIndex(inp.d, i) ELSE NoT
           ok == hit /\ AdaptiveResidualBlockOK(b, e, di)
           res == IF ok THEN e ELSE NoT
       IN  /\ e' = res
           /\ trace' = Append(trace, Step("qp_block", b.id, i, e, di, res, i))
           /\ IF ok
              THEN /\ embs2' = Append(embs2, res)
                   /\ pc' = IF i + 1 < net.num_upsamples THEN "D_source"
                            ELSE "D_source_out"
                   /\ i' = IF i + 1 < net.num_upsamples THEN i + 1 ELSE 0
                   /\ err' = err
              ELSE /\ embs2' = embs2
                   /\ i' = i
                   /\ Raise(IF hit THEN "RuntimeError" ELSE "IndexError")
    /\ net' = ForwardPreHooks(net, trace')
    /\ UNCHANGED <<cfg, inp, x, c, embs, out>>

\* e = self.sn["output_conv"](e)
SiFiGANDirect_source_out ==
    /\ pc = "D_source_out"
    /\ LET l == net.sn_output_conv
           ok == LayerOK(l, e)
           res == IF ok THEN LayerOut(l, e) ELSE NoT
       IN  /\ e' = res
           /\ trace' = Append(trace, Step("output_conv", l.id, -1, e, NoT, res, 0))
           /\ IF ok
              THEN /\ out' = <<[t |-> res, head |-> l.mods]>>
                   /\ pc' = "D_filter"
                   /\ err' = err
              ELSE /\ out' = out
                   /\ Raise("RuntimeError")
    /\ i' = 0
    /\ net' = ForwardPreHooks(net, trace')
    /\ UNCHANGED <<cfg, inp, x, c, embs, embs2>>

\* for i in range(self.num_upsamples):
\*     if self.share_upsamples: c = self.sn["upsamples"][i](c) + embs2[i]
\*     else: c = self.fn["upsamples"][i](c) + embs2[i]
SiFiGANDirect_filter ==
    /\ pc = "D_filter"
    /\ LET l == FilterUpsample(net, i)
           r == UpsampleAdd(l, c, embs2, i, i)
       IN  /\ c' = r.res
           /\ trace' = trace \o [n \in DOMAIN r.steps |->
                                   [r.steps[n] EXCEPT !.op = "filter_" \o @]]
           /\ IF r.ok
              THEN /\ pc' = "D_filter_blocks"
                   /\ err' = err
              ELSE Raise(r.exc)
    /\ net' = ForwardPreHooks(net, trace')
    /\ UNCHANGED <<cfg, inp, x, e, embs, embs2, i, out>>

\*     cs = 0.0; for j ...: cs += self.fn["blocks"][i * num_blocks + j](c)
\*     c = cs / num_blocks
SiFiGANDirect_filter_blocks ==
    /\ pc = "D_filter_blocks"
    /\ LET ok == GroupOK(net.fn_blocks, i, net.num_blocks, c)
       IN  IF ok
           THEN /\ trace' = trace \o GroupSteps(net.fn_blocks, i, net.num_blocks, c)
                            \o <<Step("mean", NoId, i, c, NoT, c,
                                      MeanDivisor(net.num_blocks))>>
                /\ c' = c
                /\ i' = i + 1
                /\ pc' = IF i + 1 < net.num_upsamples THEN "D_filter"
                         ELSE "D_filter_out"
                /\ err' = err
           ELSE /\ trace' = trace
                /\ c' = NoT
                /\ i' = i
                /\ Raise("RuntimeError")
    /\ net' = ForwardPreHooks(net, trace')
    /\ UNCHANGED <<cfg, inp, x, e, embs, embs2, out>>

\* c = self.fn["output_conv"](c); return c, e
SiFiGANDirect_filter_out ==
    /\ pc = "D_filter_out"
    /\ LET l == net.fn_output_conv
           ok == LayerOK(l, c)
           res == IF ok THEN LayerOut(l, c) ELSE NoT
       IN  /\ c' = res
           /\ trace' = Append(trace, Step("filter_output_conv", l.id, -1, c, NoT,
                                          res, 0))
           /\ IF ok
              THEN /\ out' = <<[t |-> res, head |-> l.mods]>> \o out
                   /\ pc' = "returned"
                   /\ err' = err
              ELSE /\ out' = out
                   /\ Raise("RuntimeError")
    /\ net' = ForwardPreHooks(net, trace')
    /\ UNCHANGED <<cfg, inp, x, e, embs, embs2, i>>

Next ==
    \/ HiFiGAN_Construct
    \/ HiFiGAN_forward
    \/ HiFiGAN_emb
    \/ HiFiGAN_downsample
    \/ HiFiGAN_upsample
    \/ HiFiGAN_add
    \/ HiFiGAN_qp
    \/ HiFiGAN_blocks
    \/ HiFiGAN_output_conv
    \/ SiFiGAN_Construct
    \/ SiFiGAN_forward
    \/ SiFiGAN_emb
    \/ SiFiGAN_downsample
    \/ SiFiGAN_source
    \/ SiFiGAN_source_block
    \/ SiFiGAN_source_out
    \/ SiFiGAN_filter_downsample
    \/ SiFiGAN_filter
    \/ SiFiGAN_filter_blocks
    \/ SiFiGAN_filter_out
    \/ SiFiGANDirect_Construct
    \/ SiFiGANDirect_forward
    \/ SiFiGANDirect_emb
    \/ SiFiGANDirect_downsample
    \/ SiFiGANDirect_source
    \/ SiFiGANDirect_source_block
    \/ SiFiGANDirect_source_out
    \/ SiFiGANDirect_filter
    \/ SiFiGANDirect_filter_blocks
    \/ SiFiGANDirect_filter_out

Spec == Init /\ [][Next]_vars

(***************************************************************************)
(* The weight-normalization methods, called on a constructed generator     *)
(* before or after a forward call.                                         *)
(***************************************************************************)
\* def remove_weight_norm(self): self.apply(_remove_weight_norm)
RemoveWeightNorm(gen) ==
    /\ pc \in {"ready", "returned"}
    /\ cfg.gen = gen
    /\ LET exc == remove_weight_norm_error(net.params)
       IN  IF exc = ""
           THEN /\ net' = [net EXCEPT !.params = remove_weight_norm(@)]
                /\ pc' = pc
                /\ err' = err
           ELSE /\ net' = net
                /\ Raise(exc)
    /\ UNCHANGED <<cfg, inp, x, c, e, embs, embs2, i, trace, out>>

\* def apply_weight_norm(self): self.apply(_apply_weight_norm)
ApplyWeightNorm(gen) ==
    /\ pc \in {"ready", "returned"}
    /\ cfg.gen = gen
    /\ LET exc == apply_weight_norm_error(net.params)
       IN  IF exc = ""
           THEN /\ net' = [net EXCEPT !.params = apply_weight_norm(@)]
                /\ pc' = pc
                /\ err' = err
           ELSE /\ net' = net
                /\ Raise(exc)
    /\ UNCHANGED <<cfg, inp, x, c, e, embs, embs2, i, trace, out>>

HiFiGAN_remove_weight_norm == RemoveWeightNorm("HiFiGAN")
HiFiGAN_apply_weight_norm == ApplyWeightNorm("HiFiGAN")
SiFiGAN_remove_weight_norm == RemoveWeightNorm("SiFiGAN")
SiFiGAN_apply_weight_norm == ApplyWeightNorm("SiFiGAN")
SiFiGANDirect_remove_weight_norm == RemoveWeightNorm("SiFiGANDirect")
SiFiGANDirect_apply_weight_norm == ApplyWeightNorm("SiFiGANDirect")

NextLifecycle ==
    \/ Next
    \/ HiFiGAN_remove_weight_norm
    \/ HiFiGAN_apply_weight_norm
    \/ SiFiGAN_remove_weight_norm
    \/ SiFiGAN_apply_weight_norm
    \/ SiFiGANDirect_remove_weight_norm
    \/ SiFiGANDirect_apply_weight_norm

\* both values of use_weight_norm (the weights do not depend on the channel
\* count, and one residual block per stage has them like two)
InitLifecycle == InitWith(BOOLEAN, {4}, {1})

\* construction, forward calls and the weight-normalization methods
SpecLifecycle == InitLifecycle /\ [][NextLifecycle]_vars

(***************************************************************************)
(* Properties.                                                             *)
(***************************************************************************)
Constructed == pc \notin {"new", "init_error"}
Dual == cfg.gen \in {"SiFiGAN", "SiFiGANDirect"}
Steps(ops) == {n \in DOMAIN trace : trace[n].op \in ops}

\* time length after the whole ladder of transposed convolutions
RECURSIVE LadderLength(_, _)
LadderLength(L, scales) ==
    IF Len(scales) = 0 THEN L
    ELSE LadderLength(ConvTranspose1dLen(L, 2 * Head(scales), Head(scales),
                                         UpsamplePadding(Head(scales)),
                                         UpsampleOutputPadding(Head(scales))),
                      Tail(scales))

\* C1: every transposed-convolution stage maps time length L to L * scale,
\* and every waveform a forward call returns has time length
\* input_length * product(all scales).
C1_UpsampledLength ==
    /\ \A n \in Steps({"upsample", "filter_upsample"}) :
          trace[n].res # NoT =>
            trace[n].res.len =
              trace[n].in.len * cfg.upsample_scales[trace[n].stage + 1]
    /\ pc = "returned" =>
          \A k \in DOMAIN out : out[k].t.len = inp.c.len * ScaleProduct(cfg)
    /\ LadderLength(100, <<5, 4, 3, 2>>) = 12000

\* a returned call on an odd and an even scale: 2 * 3 * 2 = 12 samples
C1_Witness ==
    /\ pc = "returned"
    /\ cfg.upsample_scales = <<3, 2>>
    /\ inp.c.len = 2
    /\ \A k \in DOMAIN out : out[k].t.len = 12

\* C2 (as claimed): for an excitation of length conditioning_length *
\* product(all scales), the embedding added at a stage has the time length and
\* the channel count of that stage's upsampled feature map.
C2_EmbeddingMatchesStage ==
    inp.x.len = inp.c.len * ScaleProduct(cfg) =>
        \A n \in Steps({"add"}) :
            /\ trace[n].arg.len = trace[n].in.len
            /\ trace[n].arg.ch = trace[n].in.ch

\* the downsampling layers a constructed generator holds
DownsampleLists ==
    IF cfg.gen = "HiFiGAN" THEN {net.downsamples}
    ELSE IF cfg.gen = "SiFiGAN" THEN {net.sn_downsamples, net.fn_downsamples}
    ELSE {net.sn_downsamples}

\* C3 (as claimed): a downsampling convolution has padding scale - 1 when its
\* kernel size is odd and padding scale when its kernel size is even.
C3_PaddingAsClaimed ==
    Constructed =>
        \A ds \in DownsampleLists : \A n \in DOMAIN ds :
            /\ ds[n].k % 2 = 1 => ds[n].p = ds[n].s - 1
            /\ ds[n].k % 2 = 0 => ds[n].p = ds[n].s

\* C3 (amended): a downsampling convolution takes the scale and kernel size
\* of the matching upsampling stage and has padding scale - 1 when its kernel
\* size is even and padding scale when its kernel size is odd.
C3_PaddingByParity ==
    Constructed =>
        \A ds \in DownsampleLists : \A n \in DOMAIN ds :
            /\ ds[n].s = cfg.upsample_scales[Len(ds) - n + 1]
            /\ ds[n].k = cfg.upsample_kernel_sizes[Len(ds) - n + 1]
            /\ ds[n].k % 2 = 0 => ds[n].p = ds[n].s - 1
            /\ ds[n].k % 2 = 1 => ds[n].p = ds[n].s

C3_Witness ==
    /\ pc = "ready"
    /\ cfg.gen = "SiFiGAN"
    /\ Len(net.fn_downsamples) = 2
    /\ net.fn_downsamples[1].s = 3
    /\ net.fn_downsamples[1].p = 2

\* the configurations C4 names
BadConfig ==
    \/ Len(cfg.upsample_scales) # Len(cfg.upsample_kernel_sizes)
    \/ \E k \in DOMAIN cfg.upsample_kernel_sizes :
          /\ k \in DOMAIN cfg.upsample_scales
          /\ cfg.upsample_kernel_sizes[k] # 2 * cfg.upsample_scales[k]
    \/ cfg.kernel_size % 2 = 0

\* C4: a constructor given scale and kernel lists of different lengths, a
\* kernel that is not twice its scale, or an even kernel_size raises and
\* produces no generator.
C4_BadConfigRejected ==
    BadConfig =>
        /\ net = <<>>
        /\ pc = "new" \/ (pc = "init_error" /\ err = "AssertionError")

C4_Witness ==
    /\ pc = "init_error"
    /\ cfg.gen = "SiFiGAN"
    /\ cfg.kernel_size % 2 = 1
    /\ cfg.upsample_scales = <<2, 3>>
    /\ cfg.upsample_kernel_sizes = <<4, 7>>

\* C5 (as claimed): a base channel count that 2^(number of stages) does not
\* divide is rejected at construction, and a constructed generator has
\* exactly base / 2^i channels at stage i.
C5_IndivisibleChannelsRejected ==
    /\ cfg.channels % Pow2(Len(cfg.upsample_kernel_sizes)) # 0 => ~Constructed
    /\ Constructed =>
          \A k \in 1..NumStages(cfg) :
              LET up == IF Dual THEN net.sn_upsamples[k] ELSE net.upsamples[k]
              IN  up.out_ch * Pow2(k) = cfg.channels

\* the parallel residual blocks of a constructed generator
ResBlocks == IF Dual THEN net.fn_blocks ELSE net.blocks

\* C6: the group output of a stage is the sum of the outputs of exactly the
\* blocks built for that stage (flat indices i * num_blocks ..
\* i * num_blocks + num_blocks - 1), each applied once to the stage input,
\* divided by num_blocks; a returned call has used every block exactly once.
C6_GroupMean ==
    Constructed =>
        /\ \A n \in Steps({"mean"}) :
              LET st == trace[n].stage
                  nb == cfg.num_blocks
                  terms == (n - nb)..(n - 1)
              IN  /\ n > nb
                  /\ trace[n].k = nb
                  /\ \A m \in terms :
                        /\ trace[m].op = "block"
                        /\ trace[m].stage = st
                        /\ trace[m].in = trace[n].in
                  /\ {trace[m].k : m \in terms} = (st * nb)..(st * nb + nb - 1)
                  /\ {trace[m].mod : m \in terms}
                       = {ResBlocks[b].id :
                            b \in {b \in DOMAIN ResBlocks : ResBlocks[b].stage = st}}
                  /\ Cardinality({trace[m].mod : m \in terms}) = nb
        /\ \A n \in Steps({"block"}) : \E m \in Steps({"mean"}) :
              m > n /\ m - n <= cfg.num_blocks
        /\ pc = "returned" =>
              \A b \in DOMAIN ResBlocks :
                  Cardinality({m \in Steps({"block"}) :
                                 trace[m].mod = ResBlocks[b].id}) = 1

C6_Witness ==
    /\ pc = "returned"
    /\ cfg.num_blocks = 2
    /\ NumStages(cfg) = 2
    /\ Cardinality(Steps({"block"})) = 4

\* C7: with share_upsamples the filter network builds no upsampling layer and
\* applies at stage i the module the source network applied at stage i (same
\* input, same output); without it the filter network applies its own N
\* layers and none of the source network's.  The flag keeps the value the
\* constructor was given.
C7_SharedUpsamples ==
    (Constructed /\ Dual) =>
        /\ net.share_upsamples = cfg.share_upsamples
        /\ Len(net.fn_upsamples) =
              IF cfg.share_upsamples THEN 0 ELSE NumStages(cfg)
        /\ \A n \in Steps({"filter_upsample"}) :
              IF cfg.share_upsamples
              THEN /\ trace[n].mod = net.sn_upsamples[trace[n].stage + 1].id
                   /\ \E m \in Steps({"upsample"}) :
                         /\ trace[m].stage = trace[n].stage
                         /\ trace[m].mod = trace[n].mod
                         /\ trace[m].in = trace[n].in => trace[m].res = trace[n].res
              ELSE /\ trace[n].mod = net.fn_upsamples[trace[n].stage + 1].id
                   /\ \A m \in Steps({"upsample"}) : trace[m].mod # trace[n].mod
                   /\ \A k \in DOMAIN net.sn_upsamples :
                         net.sn_upsamples[k].id # trace[n].mod

C7_Witness ==
    /\ pc = "returned"
    /\ cfg.gen = "SiFiGAN"
    /\ cfg.share_upsamples
    /\ Cardinality(Steps({"filter_upsample"})) = 2

\* C8 (as claimed): an addition of an embedding whose time length differs
\* from the upsampled feature map's raises, so no call with such a mismatch
\* returns.
C8_MismatchRaises ==
    \A n \in Steps({"add", "filter_add"}) :
        trace[n].arg.len # trace[n].in.len =>
            /\ trace[n].res = NoT
            /\ pc # "returned"

\* C9 (as claimed): a call on the adaptive path returns only if the
\* dilation-factor list has one tensor per stage, each of the time length of
\* that stage's feature map.
C9_DilationFactorsValidated ==
    (pc = "returned" /\ cfg.use_qp_resblocks) =>
        /\ Len(inp.d) = NumStages(cfg)
        /\ \A k \in DOMAIN inp.d :
              k <= NumStages(cfg) =>
                inp.d[k].len = StageLen(cfg, inp.c.len, k - 1)

EndsWith(head, tail) ==
    /\ Len(head) >= Len(tail)
    /\ SubSeq(head, Len(head) - Len(tail) + 1, Len(head)) = tail

\* C10 (as claimed): every returned waveform comes from a head that ends in
\* the channel-collapsing convolution followed by Tanh.
C10_EveryOutputBounded ==
    pc = "returned" =>
        \A k \in DOMAIN out : EndsWith(out[k].head, <<"Conv1d", "Tanh">>)

\* C10 (amended): the first returned waveform (HiFiGAN's output, the filtered
\* audio of SiFiGAN and SiFiGAN-Direct) comes from a head that ends in the
\* convolution followed by Tanh; the excitation output of SiFiGAN and
\* SiFiGAN-Direct comes from a head that ends in the convolution itself.
C10_AudioOutputBounded ==
    pc = "returned" =>
        /\ Len(out) = IF Dual THEN 2 ELSE 1
        /\ EndsWith(out[1].head, <<"Conv1d", "Tanh">>)
        /\ out[1].t.ch = cfg.out_channels
        /\ Dual => /\ EndsWith(out[2].head, <<"LeakyReLU", "Conv1d">>)
                   /\ out[2].t.ch = cfg.out_channels

C10_Witness ==
    /\ pc = "returned"
    /\ cfg.gen = "SiFiGANDirect"
    /\ Len(out) = 2
    /\ out[1].head = <<"LeakyReLU", "Conv1d", "Tanh">>
    /\ out[2].head = <<"LeakyReLU", "Conv1d">>

\* the steps of the source ladder and of the filter ladder
LadderOps ==
    {"upsample", "add", "qp_block", "block", "mean", "filter_upsample",
     "filter_add", "filter_downsample", "output_conv", "filter_output_conv"}

\* C11: a SiFiGAN forward call looks the speaker id up once, projects it to
\* the base channel count and adds it once, to the output of the input
\* convolution; the biased map is the input of stage 0 of the source ladder
\* and of stage 0 of the filter ladder, and no later step looks the speaker
\* up, projects it or adds it again.
C11_SpeakerBiasOnce ==
    (cfg.gen = "SiFiGAN" /\ Len(trace) > 0) =>
        /\ Cardinality(Steps({"emb_g"})) <= 1
        /\ Cardinality(Steps({"cond"})) <= 1
        /\ Cardinality(Steps({"add_sid"})) <= 1
        /\ \A n \in Steps({"emb_g"}) :
              /\ n = 1
              /\ trace[n].k = inp.sid
        /\ \A n \in Steps({"cond"}) :
              /\ n = 2
              /\ trace[n].in = trace[1].res
              /\ trace[n].res = T(cfg.channels, 1)
        /\ \A n \in Steps({"add_sid"}) :
              /\ n = 4
              /\ trace[3].op = "input_conv"
              /\ trace[n].in = trace[3].res
              /\ trace[n].arg = trace[2].res
              /\ trace[n].res = trace[3].res
        /\ \A n \in Steps(LadderOps) :
              /\ n > 4
              /\ trace[4].op = "add_sid"
              /\ trace[n].arg # trace[2].res
        /\ \A n \in Steps({"upsample", "filter_upsample"}) :
              trace[n].stage = 0 => trace[n].in = trace[4].res

C11_Witness ==
    /\ pc = "returned"
    /\ cfg.gen = "SiFiGAN"
    /\ NumStages(cfg) = 2
    /\ Cardinality(Steps({"emb_g", "cond", "add_sid"})) = 3
    /\ trace[4].res = T(cfg.channels, inp.c.len)

\* the weight state of the modules of a constructed generator
Params == net.params
Normalized(m) == m.hook \/ m.weight_g # "" \/ m.weight_v # ""

\* a call of remove_weight_norm
RemoveCall ==
    \/ HiFiGAN_remove_weight_norm
    \/ SiFiGAN_remove_weight_norm
    \/ SiFiGANDirect_remove_weight_norm

\* C12: a remove_weight_norm call never fails; it leaves a module without
\* weight normalization unchanged and collapses a normalized one to the plain
\* weight the normalization computed; after it no module is normalized, and
\* a second call would change nothing.
C12_RemoveNeverFails ==
    [][RemoveCall =>
          /\ pc' = pc
          /\ err' = err
          /\ \A id \in DOMAIN Params :
                /\ ~Normalized(Params[id]) => Params'[id] = Params[id]
                /\ Normalized(Params[id]) =>
                      Params'[id] = [conv |-> Params[id].conv, hook |-> FALSE,
                                     weight |-> compute_weight(Params[id]),
                                     weight_g |-> "", weight_v |-> ""]
                /\ ~Normalized(Params'[id])
          /\ remove_weight_norm_error(Params') = ""
          /\ remove_weight_norm(Params') = Params']_vars

\* a generator built with weight normalization after remove_weight_norm
C12_Witness ==
    /\ pc = "ready"
    /\ cfg.use_weight_norm
    /\ \A id \in DOMAIN Params : ~Normalized(Params[id])
    /\ \E id \in DOMAIN Params : Params[id].conv

\* the convolutions of a constructed generator
Convs == {id \in DOMAIN Params : Params[id].conv}

\* C13 (as claimed): once the constructor has returned, the weight of every
\* convolution holds the normal initialization, with and without weight
\* normalization, and that is the weight every convolution a forward call
\* applies has used.
C13_NormalInitUsed ==
    Constructed =>
        /\ \A id \in Convs :
              /\ Params[id].weight = NormalInit
              /\ Params[id].hook = cfg.use_weight_norm
        /\ \A n \in DOMAIN trace :
              trace[n].mod \in Convs =>
                  Params[trace[n].mod].weight = NormalInit

\* the steps the claimed order gives stage st, as <<operation, stage>> pairs
RECURSIVE Repeat(_, _)
Repeat(v, n) == IF n = 0 THEN <<>> ELSE <<v>> \o Repeat(v, n - 1)

StageOrder(st) ==
    <<<<"upsample", st>>>>
    \o (IF cfg.use_sine_embs THEN <<<<"add", st>>>> ELSE <<>>)
    \o (IF cfg.use_qp_resblocks THEN <<<<"qp_block", st>>>> ELSE <<>>)
    \o Repeat(<<"block", st>>, cfg.num_blocks)
    \o <<<<"mean", st>>>>

RECURSIVE StagesOrder(_)
StagesOrder(st) ==
    IF st >= NumStages(cfg) THEN <<>>
    ELSE StageOrder(st) \o StagesOrder(st + 1)

CallOrder ==
    <<<<"input_conv", -1>>>>
    \o (IF cfg.use_sine_embs
        THEN <<<<"emb", -1>>>> \o Repeat(<<"downsample", -1>>, NumStages(cfg) - 1)
        ELSE <<>>)
    \o StagesOrder(0)
    \o <<<<"output_conv", -1>>>>

\* C14: the steps of a HiFiGAN forward call follow the claimed order (stages
\* 0..N-1; in a stage: upsample, the embedding of the stage if use_sine_embs,
\* the adaptive block with d[i] if use_qp_resblocks, the averaged group; the
\* head after stage N-1); without use_sine_embs no step reads x and without
\* use_qp_resblocks no step reads d, so a call given a wrong x or d ends as
\* one given the right ones.
C14_StageOrder ==
    (cfg.gen = "HiFiGAN" /\ Constructed) =>
        /\ Len(trace) <= Len(CallOrder)
        /\ \A n \in DOMAIN trace :
              <<trace[n].op, trace[n].stage>> = CallOrder[n]
        /\ pc = "returned" => Len(trace) = Len(CallOrder)
        /\ \A n \in Steps({"add"}) :
              /\ trace[n].k = NumStages(cfg) - 1 - trace[n].stage
              /\ trace[n].k + 1 \in DOMAIN embs
                    => trace[n].arg = embs[trace[n].k + 1]
        /\ \A n \in Steps({"qp_block"}) :
              /\ trace[n].mod = net.qp_blocks[trace[n].stage + 1].id
              /\ trace[n].stage + 1 \in DOMAIN inp.d
                    => trace[n].arg = inp.d[trace[n].stage + 1]
        /\ ~cfg.use_sine_embs =>
              /\ x = inp.x
              /\ embs = <<>>
              /\ Steps({"emb", "downsample", "add"}) = {}
        /\ ~cfg.use_qp_resblocks => Steps({"qp_block"}) = {}
        /\ (~cfg.use_sine_embs /\ ~cfg.use_qp_resblocks) =>
              /\ \A n \in DOMAIN trace : trace[n].arg = NoT
              /\ pc = "raised" =>
                    \E k \in DOMAIN cfg.upsample_scales :
                        cfg.upsample_scales[k] = 1
              /\ pc = "returned" =>
                    out[1].t = T(cfg.out_channels, inp.c.len * ScaleProduct(cfg))

\* a returned call with both options off that was given an excitation of one
\* sample and a list d that is too short
PlainCallReturned ==
    /\ pc = "returned"
    /\ cfg.gen = "HiFiGAN"
    /\ NumStages(cfg) = 2
    /\ ~cfg.use_sine_embs /\ ~cfg.use_qp_resblocks
    /\ inp.x.len = 1
    /\ Len(inp.d) = 1

\* a returned two-stage call with both options on
C14_Witness ==
    /\ pc = "returned"
    /\ cfg.gen = "HiFiGAN"
    /\ NumStages(cfg) = 2
    /\ cfg.use_sine_embs /\ cfg.use_qp_resblocks
    /\ Len(trace) = Len(CallOrder)

\* the steps of the filter network
FilterOps ==
    {"filter_downsample", "filter_upsample", "filter_add", "block", "mean",
     "filter_output_conv"}

\* the operations of a dual generator's call up to its first filter step
SourcePart ==
    LET first == {n \in DOMAIN trace : trace[n].op \in FilterOps}
        last == IF first = {} THEN Len(trace)
                ELSE (CHOOSE n \in first : \A m \in first : n <= m) - 1
    IN  [n \in 1..last |-> trace[n].op]

RECURSIVE SourceStages(_)
SourceStages(n) ==
    IF n = 0 THEN <<>>
    ELSE <<"upsample", "add", "qp_block">> \o SourceStages(n - 1)

\* the source network: embedding, cascade, ladder, head
SourceOrder ==
    <<"emb">> \o Repeat("downsample", NumStages(cfg) - 1)
    \o SourceStages(NumStages(cfg)) \o <<"output_conv">>

IsPrefix(a, b) == Len(a) <= Len(b) /\ a = SubSeq(b, 1, Len(a))

\* the source network's final activation: the output of its last block
IsSourceFinal(t) ==
    \E m \in Steps({"qp_block"}) :
        trace[m].stage = NumStages(cfg) - 1 /\ trace[m].res = t

\* how each variant conditions its filter network
FilterFusion ==
    /\ cfg.gen = "SiFiGAN" =>
          /\ \A n \in Steps({"filter_downsample"}) :
                /\ trace[n].mod =
                      (IF cfg.share_downsamples THEN net.sn_downsamples
                       ELSE net.fn_downsamples)[trace[n].k + 1].id
                /\ IF trace[n].k = 0 THEN IsSourceFinal(trace[n].in)
                   ELSE /\ trace[n - 1].op = "filter_downsample"
                        /\ trace[n - 1].k = trace[n].k - 1
                        /\ trace[n].in = trace[n - 1].res
          /\ \A n \in Steps({"filter_add"}) :
                /\ trace[n].k = NumStages(cfg) - 1 - trace[n].stage
                /\ IF trace[n].k = 0 THEN IsSourceFinal(trace[n].arg)
                   ELSE \E m \in Steps({"filter_downsample"}) :
                           /\ trace[m].k = trace[n].k - 1
                           /\ trace[m].res = trace[n].arg
    /\ cfg.gen = "SiFiGANDirect" =>
          /\ Steps({"filter_downsample"}) = {}
          /\ \A n \in Steps({"downsample"}) :
                /\ trace[n - 1].op \in {"emb", "downsample"}
                /\ trace[n].in = trace[n - 1].res
          /\ \A n \in Steps({"filter_add"}) :
                /\ trace[n].k = trace[n].stage
                /\ \E m \in Steps({"qp_block"}) :
                      /\ trace[m].stage = trace[n].stage
                      /\ trace[m].res = trace[n].arg
    /\ \A n \in Steps({"filter_add"}) :
          /\ trace[n].arg.ch = trace[n].in.ch
          /\ trace[n].arg.len = trace[n].in.len

\* C15 (as claimed): the two dual generators condition their filter networks
\* as FilterFusion says, and that is their only difference: up to the filter
\* network both calls are the input convolution followed by the source
\* network.
C15_DifferOnlyInFilter ==
    (Dual /\ Constructed) =>
        /\ FilterFusion
        /\ IsPrefix(SourcePart, <<"input_conv">> \o SourceOrder)

\* C15 (amended): the two dual generators condition their filter networks as
\* FilterFusion says; up to the filter network a SiFiGAN-Direct call is the
\* input convolution followed by the source network, and a SiFiGAN call is
\* the speaker lookup, its projection, the input convolution and the addition
\* of the speaker bias, followed by the source network.
C15_DifferInFilterAndSpeaker ==
    (Dual /\ Constructed) =>
        /\ FilterFusion
        /\ cfg.gen = "SiFiGANDirect" =>
              IsPrefix(SourcePart, <<"input_conv">> \o SourceOrder)
        /\ cfg.gen = "SiFiGAN" =>
              IsPrefix(SourcePart,
                       <<"emb_g", "cond", "input_conv", "add_sid">>
                       \o SourceOrder)
        /\ pc = "returned" =>
              Len(SourcePart) = Len(SourceOrder)
                                + (IF cfg.gen = "SiFiGAN" THEN 4 ELSE 1)

\* a returned SiFiGAN call whose filter cascade used the filter network's own
\* downsampling layer
C15_Witness ==
    /\ pc = "returned"
    /\ cfg.gen = "SiFiGAN"
    /\ ~cfg.share_downsamples
    /\ NumStages(cfg) = 2
    /\ \E n \in Steps({"filter_downsample"}) :
          trace[n].mod = net.fn_downsamples[1].id
    /\ Cardinality(Steps({"filter_add"})) = 2

\* a returned two-stage SiFiGAN-Direct call
DirectCallReturned ==
    /\ pc = "returned"
    /\ cfg.gen = "SiFiGANDirect"
    /\ NumStages(cfg) = 2
    /\ Cardinality(Steps({"filter_add"})) = 2

\* the output heads, the upsampling ladders and the sine-embedding
\* convolutions of a constructed generator
Heads ==
    IF Dual THEN {net.sn_output_conv, net.fn_output_conv}
    ELSE {net.output_conv}
Ladders ==
    IF Dual THEN {l \in {net.sn_upsamples, net.fn_upsamples} : Len(l) > 0}
    ELSE {net.upsamples}
SineEmbs == IF Dual THEN {net.sn_emb} ELSE {net.emb[k] : k \in DOMAIN net.emb}

\* C16: a constructed generator has at least one stage, and each of its
\* output heads takes base_channels // 2^num_stages channels, which is what
\* the last stage of each upsampling ladder and the sine-embedding convolution
\* put out; the head of a forward call receives that many channels.
C16_HeadChannels ==
    Constructed =>
        /\ NumStages(cfg) >= 1
        /\ \A h \in Heads :
              /\ h.in_ch = cfg.channels \div Pow2(NumStages(cfg))
              /\ \A l \in Ladders : l[Len(l)].out_ch = h.in_ch
              /\ \A m \in SineEmbs : m.out_ch = h.in_ch
        /\ \A n \in Steps({"output_conv", "filter_output_conv"}) :
              /\ trace[n].in.ch = cfg.channels \div Pow2(NumStages(cfg))
              /\ trace[n].res # NoT

\* SiFiGAN with its own filter ladder, 6 base channels and two stages: both
\* heads take 6 // 4 = 1 channel
C16_Witness ==
    /\ pc = "returned"
    /\ cfg.gen = "SiFiGAN"
    /\ ~cfg.share_upsamples
    /\ cfg.channels = 6
    /\ NumStages(cfg) = 2
    /\ net.sn_output_conv.in_ch = 1
    /\ net.fn_output_conv.in_ch = 1
    /\ net.fn_upsamples[2].out_ch = 1

\* a forward call has been made
Called == inp # NoInp

\* C17: SiFiGAN built with gin_channels = 0 has no embedding table and no
\* projection, and each of its forward calls raises AttributeError before any
\* step, returning nothing; built with gin_channels # 0 it has a table of 12
\* entries and a projection, a call with a speaker id outside 0..11 raises
\* IndexError before any step, and a call with an id in 0..11 looks it up.
C17_SpeakerBiasRequired ==
    (cfg.gen = "SiFiGAN" /\ Constructed) =>
        /\ cfg.gin_channels = 0 =>
              /\ net.emb_g = <<>>
              /\ net.cond = <<>>
              /\ Id("self", "emb_g", 0) \notin DOMAIN Params
              /\ Id("self", "cond", 0) \notin DOMAIN Params
              /\ Called =>
                    /\ pc = "raised"
                    /\ err = "AttributeError"
                    /\ trace = <<>>
                    /\ out = <<>>
        /\ cfg.gin_channels # 0 =>
              /\ Len(net.emb_g) = 1
              /\ net.emb_g[1].num_embeddings = 12
              /\ net.emb_g[1].embedding_dim = cfg.gin_channels
              /\ Len(net.cond) = 1
              /\ (Called /\ inp.sid \notin 0..11) =>
                    /\ pc = "raised"
                    /\ err = "IndexError"
                    /\ trace = <<>>
                    /\ out = <<>>
              /\ (Called /\ inp.sid \in 0..11) =>
                    /\ Len(trace) >= 4
                    /\ trace[1].op = "emb_g"
                    /\ trace[1].k = inp.sid
                    /\ trace[4].op = "add_sid"
                    /\ trace[4].res # NoT
        /\ pc = "returned" => (cfg.gin_channels # 0 /\ inp.sid \in 0..11)

\* a call on a generator built without speaker conditioning has raised
C17_Witness ==
    /\ cfg.gen = "SiFiGAN"
    /\ cfg.gin_channels = 0
    /\ Called
    /\ inp.sid = 11
    /\ pc = "raised"
    /\ err = "AttributeError"

\* a call with speaker id 12 has raised; a call with id 11 has returned
SidRejected ==
    /\ cfg.gen = "SiFiGAN" /\ cfg.gin_channels # 0
    /\ inp.sid = 12 /\ pc = "raised" /\ err = "IndexError"
SidAccepted ==
    /\ cfg.gen = "SiFiGAN" /\ pc = "returned" /\ inp.sid = 11

\* the cascades a constructed generator has built
Cascades == {ds \in DownsampleLists : ds # <<>>}

\* C18: every cascade is built with N layers, the n-th for upsampling stage
\* N - n; a forward call applies the layers 0..N-2 of a cascade in list
\* order, which with the undownsampled embedding gives N embeddings, and no
\* call applies the last layer of any cascade (the one for stage 0).
C18_LastDownsampleUnused ==
    Constructed =>
        /\ cfg.use_sine_embs => Cascades # {}
        /\ cfg.gen = "SiFiGAN" =>
              Cardinality(Cascades) = IF cfg.share_downsamples THEN 1 ELSE 2
        /\ \A ds \in Cascades :
              /\ Len(ds) = NumStages(cfg)
              /\ \A n \in DOMAIN ds :
                    /\ ds[n].s = cfg.upsample_scales[NumStages(cfg) - n + 1]
                    /\ ds[n].in_ch = cfg.channels \div Pow2(NumStages(cfg) - n + 1)
                    /\ ds[n].out_ch = cfg.channels \div Pow2(NumStages(cfg) - n)
              /\ \A n \in DOMAIN trace : trace[n].mod # ds[Len(ds)].id
        /\ \A n \in Steps({"downsample", "filter_downsample"}) :
              /\ trace[n].k \in 0..(NumStages(cfg) - 2)
              /\ \E ds \in Cascades : trace[n].mod = ds[trace[n].k + 1].id
              /\ trace[n].k > 0 =>
                    /\ trace[n - 1].op = trace[n].op
                    /\ trace[n - 1].k = trace[n].k - 1
        /\ \A n \in Steps({"add"}) :
              /\ Cardinality({m \in Steps({"emb", "downsample"}) : m < n})
                    = NumStages(cfg)
              /\ trace[n].k \in 0..(NumStages(cfg) - 1)
              /\ Steps({"output_conv"}) = {} => Len(embs) = NumStages(cfg)
        /\ (cfg.gen = "SiFiGAN" /\ Steps({"filter_add"}) # {}) =>
              /\ Cardinality(Steps({"filter_downsample"})) = NumStages(cfg) - 1
              /\ Len(embs) = NumStages(cfg)

\* a returned two-stage SiFiGAN call with separate cascades: each applied its
\* first layer only
C18_Witness ==
    /\ pc = "returned"
    /\ cfg.gen = "SiFiGAN"
    /\ ~cfg.share_downsamples
    /\ NumStages(cfg) = 2
    /\ \E n \in Steps({"downsample"}) : trace[n].mod = net.sn_downsamples[1].id
    /\ \E n \in Steps({"filter_downsample"}) :
          trace[n].mod = net.fn_downsamples[1].id
    /\ \A n \in DOMAIN trace :
          trace[n].mod \notin {net.sn_downsamples[2].id, net.fn_downsamples[2].id}

====
